---- MODULE Spec2Model ----
(***************************************************************************)
(* Model of pkg/graceful (shutdown.go): the Manager's registry of teardown *)
(* callbacks, Register and RegisterWithName, Wait, Shutdown sessions       *)
(* (snapshot, reverse launch, WaitGroup, buffered error channel, race      *)
(* between done and the deadline context, drain of the error channel), the *)
(* package singleton (SetupGracefulShutdown, guarded by sync.Once) and the *)
(* package-level Register, RegisterWithName and Wait.                      *)
(*                                                                         *)
(* Goroutines are interleaved one statement at a time.  A teardown         *)
(* callback is opaque: once invoked it may return nil, return an error, or *)
(* never return; each callback has a name, and the error it returns is     *)
(* named after it.  Everything a session owns (the locals of one call of   *)
(* Shutdown) is indexed by the session.                                    *)
(***************************************************************************)
EXTENDS Integers, Sequences, FiniteSets, TLC

\* ------------------------------------------------------------------ bounds

\* Number of Register calls made on the Manager, each by a goroutine of its
\* own: caller c registers the callback named c, at any time.
MaxOps == 2

\* Number of Register calls made on the health Handler, each by a goroutine
\* of its own: caller c registers the checker named c, at any time.
MaxCheckers == 2

\* Number of goroutines that call SetupGracefulShutdown.
NumSetupCallers == 2

\* Largest number of SetupGracefulShutdown calls one goroutine makes.
MaxSetupCalls == 2

\* Number of Register calls in the specifications that study something other
\* than registration.
FewOps == 1

Ops == 1..MaxOps
Callers == Ops
FewCallers == 1..FewOps
SetupCallers == 1..NumSetupCallers

\* The first and the second call of Shutdown.
Sessions == {1, 2}

\* time.Duration arguments (in seconds) and loggers handed to NewManager.
Timeouts == {-1, 0, 5}
Loggers == {"logA", "logB"}

\* syscall.SIGINT, syscall.SIGQUIT, syscall.SIGTERM
Signals == {2, 3, 15}

\* timeout = 30 * time.Second
DefaultTimeout == 30

NoManager == [id |-> 0, timeout |-> 0, logger |-> "none"]

VARIABLES
  \* ---- Manager
  m_callbacks,  \* m.callbacks: the registry, a sequence of callbacks
  mu,           \* m.mu: <<"free">>, or the goroutine that holds it
  m_timeout,    \* m.timeout
  \* ---- goroutines calling Register or RegisterWithName
  rpc,          \* position of each caller
  rtmp,         \* the slice value append() read
  regNamed,     \* the caller registers its callback with RegisterWithName
  \* ---- the goroutines running Manager.Shutdown, one per session
  pc,           \* position in Shutdown
  ctxErr,       \* ctx: "unset", "none" (live), "deadline", "canceled"
  ctxTimeout,   \* the timeout ctx was made with
  callbacks,    \* the local copy of the registry
  i,            \* loop index of the launch loop (1-based)
  wg,           \* the WaitGroup counter
  errChan,      \* buffered contents of errChan
  errCap,       \* capacity of errChan
  errClosed,    \* errChan has been closed
  done,         \* "unset", "open", "closed"
  tasks,        \* the goroutines launched by the loop, in launch order
  log,          \* events handed to m.logger, in order
  panicked,     \* an unrecovered panic has ended the process
  \* ---- the goroutine running Manager.Wait
  wpc,          \* position in Wait
  quit,         \* buffered contents of the quit channel (capacity 1)
  sig,          \* the signal Wait received
  \* ---- history
  regAfterCopy, \* callbacks appended after the session copied the registry
  invoked,      \* how many times the session has invoked each callback
  endCtx,       \* the state of ctx when the select ended the wait
  regOrder,     \* the callers in the order their Register calls returned
  supplied,     \* the timeout NewManager was called with
  doneBeforeExpiry, \* every task had ended when the deadline expired
  sawSetup,     \* what a package-level call could know of Setup when made
  \* ---- package singleton
  once,         \* defaultHook.once: "fresh", "running", "done"
  hookManager,  \* defaultHook.manager
  created,      \* number of Managers NewManager has built
  spc,          \* position of each caller in SetupGracefulShutdown
  sargs,        \* arguments of the caller's current Setup call
  sret,         \* what the caller's last Setup call returned
  scalls,       \* number of Setup calls each caller has made
  firstArgs,    \* arguments of the call whose function once.Do ran
  \* ---- health.Handler and one call of its Check
  h_checkers,   \* h.checkers: the registered checkers, a sequence
  h_mu,         \* h.mu: <<"free">>, <<"writer", c>> or <<"reader">>
  h_rpc,        \* position of each caller of Handler.Register
  c_pc,         \* position in Handler.Check
  checkers,     \* the local copy of h.checkers
  c_ctx,        \* the derived ctx: "unset", "none", "deadline", "canceled"
  result,       \* the Result being built
  c_wg,         \* the WaitGroup counter
  checkResults, \* buffered contents of checkResults
  c_cap,        \* capacity of checkResults
  c_closed,     \* checkResults has been closed
  c_tasks,      \* the goroutines launched by the loop, in launch order
  c_ret         \* what Check returned

mgrVars == <<m_callbacks, mu, m_timeout>>
regVars == <<rpc, rtmp, regNamed>>
sdVars == <<pc, ctxErr, ctxTimeout, callbacks, i, wg, errChan, errCap,
            errClosed, done, tasks, log, panicked>>
waitVars == <<wpc, quit, sig>>
histVars == <<regAfterCopy, invoked, endCtx, regOrder, supplied,
              doneBeforeExpiry, sawSetup>>
hookVars == <<once, hookManager, created, spc, sargs, sret, scalls, firstArgs>>
healthVars == <<h_checkers, h_mu, h_rpc, c_pc, checkers, c_ctx, result, c_wg,
                checkResults, c_cap, c_closed, c_tasks, c_ret>>
vars == <<mgrVars, regVars, sdVars, waitVars, histVars, hookVars, healthVars>>

\* A log event: who logged it (a session, or 0 for Wait), its level, its
\* message and its one field (an error, a component, a signal; 0 for none).
Event(src, level, msg, field) == <<src, level, msg, field>>

\* ------------------------------------------------------------ the mutex

\* Mutant of CanLock: a lock that never excludes anyone.
CanLockAlways(m) == TRUE

\* sync.Mutex.Lock proceeds only when the mutex is not held.
CanLock(m) == m = <<"free">>

\* --------------------------------------------------------- NewManager

\* Mutant of NewManager: timeout < 0 in place of timeout <= 0.
NewManagerStrict(n, timeout, logger) ==
  [id |-> n, timeout |-> IF timeout < 0 THEN DefaultTimeout ELSE timeout,
   logger |-> logger]

\* NewManager: a non-positive timeout is replaced by 30 seconds.
NewManager(n, timeout, logger) ==
  [id |-> n, timeout |-> IF timeout <= 0 THEN DefaultTimeout ELSE timeout,
   logger |-> logger]

\* ------------------------------------------------------ Manager.Register

\* Mutant of AppendCallback: the new callback is put in front.
AppendCallbackFront(cbs, fn) == <<fn>> \o cbs

\* append(m.callbacks, fn), applied to the slice value that was read.
AppendCallback(cbs, fn) == Append(cbs, fn)

\* Caller c calls m.Register(fn) with its callback, named c (through
\* RegisterWithName when regNamed[c], which wraps fn and calls Register):
\* m.mu.Lock()
RegisterLock(c) ==
  /\ ~panicked
  /\ rpc[c] = "call"
  /\ CanLock(mu)
  /\ mu' = <<"caller", c>>
  /\ rpc' = [rpc EXCEPT ![c] = "read"]
  /\ UNCHANGED <<m_callbacks, m_timeout, rtmp, regNamed, sdVars, waitVars,
                 histVars, hookVars, healthVars>>

\* append reads m.callbacks ...
RegisterRead(c) ==
  /\ ~panicked
  /\ rpc[c] = "read"
  /\ rtmp' = [rtmp EXCEPT ![c] = m_callbacks]
  /\ rpc' = [rpc EXCEPT ![c] = "write"]
  /\ UNCHANGED <<mgrVars, regNamed, sdVars, waitVars, histVars, hookVars,
                 healthVars>>

\* ... and its result is stored in m.callbacks; the deferred Unlock runs and
\* Register returns.
RegisterWrite(c) ==
  /\ ~panicked
  /\ rpc[c] = "write"
  /\ m_callbacks' = AppendCallback(rtmp[c], c)
  /\ mu' = IF mu = <<"caller", c>> THEN <<"free">> ELSE mu
  /\ rpc' = [rpc EXCEPT ![c] = "returned"]
  /\ rtmp' = [rtmp EXCEPT ![c] = <<>>]
  /\ regOrder' = Append(regOrder, c)
  /\ regAfterCopy' =
       [s \in Sessions |->
          IF pc[s] \in {"idle", "lock", "copy"}
          THEN regAfterCopy[s]
          ELSE regAfterCopy[s] \cup {c}]
  /\ UNCHANGED <<m_timeout, regNamed, sdVars, waitVars, invoked, endCtx,
                 supplied, doneBeforeExpiry, sawSetup, hookVars, healthVars>>

\* ------------------------------------------------------ Manager.Shutdown

\* callbacks := make(..., len(m.callbacks)); copy(callbacks, m.callbacks)
CopyCallbacks(live) == [k \in 1..Len(live) |-> live[k]]

\* Mutant of LoopSlice: the loop ranges over the live registry.
LoopSliceLive(snap, live) == live

\* The slice the launch loop and make(chan error, ...) read: the local copy.
LoopSlice(snap, live) == snap

\* Mutant of ErrChanCap: an unbuffered error channel.
ErrChanCapZero(cbs) == 0

\* errChan := make(chan error, len(callbacks))
ErrChanCap(cbs) == Len(cbs)

\* Mutant of LoopCond: i > 0 in place of i >= 0.
LoopCondStrict(k) == k >= 2

\* for i := len(callbacks) - 1; i >= 0; i-- (indices are 1-based here)
LoopInit(cbs) == Len(cbs)
LoopCond(k) == k >= 1
LoopStep(k) == k - 1

\* Mutant of PickCallback: the slice is read from its front.
PickCallbackForward(cbs, k) == cbs[Len(cbs) + 1 - k]

\* fn := callbacks[i]
PickCallback(cbs, k) == cbs[k]

\* Mutant of ShouldSend: err == nil in place of err != nil.
ShouldSendInverted(res) == res = "nil"

\* if err := fn(ctx); err != nil { errChan <- err }
ShouldSend(res) == res # "nil"

\* for err := range errChan: the next value received from the closed channel.
NextError(ch) == Head(ch)

\* Mutant of CtxDone: cancel() called at once instead of deferred.
CtxDoneAtOnce(e) == e # "unset"

\* ctx.Done() is closed once the deadline has expired or cancel() has run.
CtxDone(e) == e \in {"deadline", "canceled"}

\* Mutant of CtxAfterTask: the first error cancels the context of the others.
CtxAfterTaskCancelOnError(e, r) ==
  IF r = "err" /\ e = "none" THEN "canceled" ELSE e

\* What the return of a callback does to ctx: nothing, the goroutine of a
\* callback only sends its error and calls wg.Done().
CtxAfterTask(e, r) == e

\* Mutant of WaitGroupZero: close(done) without wg.Wait().
WaitGroupZeroAlways(n) == TRUE

\* wg.Wait() returns when the counter is zero.
WaitGroupZero(n) == n = 0

\* Mutant of ErrChanOf: one error channel for all sessions, as a field of
\* the Manager would be.
ErrChanOfFirst(s) == 1

\* The channel the goroutines launched by session s send to: errChan, a
\* local variable of that call of Shutdown, captured by their closures.
ErrChanOf(s) == s

\* Mutant of WrapperResult: the wrapper swallows the error.
WrapperResultNil(r) == "nil"

\* return fn(ctx), in the wrapper RegisterWithName registers.
WrapperResult(r) == r

\* The loop of session s has launched every task of the session.
Launched(s) == pc[s] \in {"select", "close", "drain", "done"}

\* The select of session s has ended the wait.
WaitEnded(s) == pc[s] \in {"close", "drain", "done"}

\* Shutdown is called (by the application, or by Wait), which begins session
\* s: ctx, cancel := context.WithTimeout(context.Background(), m.timeout)
ShutdownStart(s) ==
  /\ ~panicked
  /\ pc[s] = "idle"
  /\ wpc \in {"off", "running"}
  /\ ctxErr' = [ctxErr EXCEPT ![s] = "none"]
  /\ ctxTimeout' = [ctxTimeout EXCEPT ![s] = m_timeout]
  /\ pc' = [pc EXCEPT ![s] = "lock"]
  /\ UNCHANGED <<mgrVars, regVars, callbacks, i, wg, errChan, errCap,
                 errClosed, done, tasks, log, panicked, waitVars, histVars,
                 hookVars, healthVars>>

\* m.mu.Lock()
ShutdownLock(s) ==
  /\ ~panicked
  /\ pc[s] = "lock"
  /\ CanLock(mu)
  /\ mu' = <<"shutdown", s>>
  /\ pc' = [pc EXCEPT ![s] = "copy"]
  /\ UNCHANGED <<m_callbacks, m_timeout, regVars, ctxErr, ctxTimeout,
                 callbacks, i, wg, errChan, errCap, errClosed, done, tasks,
                 log, panicked, waitVars, histVars, hookVars, healthVars>>

\* callbacks := make(...); copy(callbacks, m.callbacks)
ShutdownCopy(s) ==
  /\ ~panicked
  /\ pc[s] = "copy"
  /\ callbacks' = [callbacks EXCEPT ![s] = CopyCallbacks(m_callbacks)]
  /\ pc' = [pc EXCEPT ![s] = "unlock"]
  /\ UNCHANGED <<mgrVars, regVars, ctxErr, ctxTimeout, i, wg, errChan,
                 errCap, errClosed, done, tasks, log, panicked, waitVars,
                 histVars, hookVars, healthVars>>

\* m.mu.Unlock()
ShutdownUnlock(s) ==
  /\ ~panicked
  /\ pc[s] = "unlock"
  /\ mu' = IF mu = <<"shutdown", s>> THEN <<"free">> ELSE mu
  /\ pc' = [pc EXCEPT ![s] = "make"]
  /\ UNCHANGED <<m_callbacks, m_timeout, regVars, ctxErr, ctxTimeout,
                 callbacks, i, wg, errChan, errCap, errClosed, done, tasks,
                 log, panicked, waitVars, histVars, hookVars, healthVars>>

\* var wg sync.WaitGroup; errChan := make(chan error, len(callbacks));
\* i := len(callbacks) - 1
ShutdownMake(s) ==
  /\ ~panicked
  /\ pc[s] = "make"
  /\ wg' = [wg EXCEPT ![s] = 0]
  /\ errChan' = [errChan EXCEPT ![s] = <<>>]
  /\ errCap' = [errCap EXCEPT ![s] =
                  ErrChanCap(LoopSlice(callbacks[s], m_callbacks))]
  /\ i' = [i EXCEPT ![s] = LoopInit(LoopSlice(callbacks[s], m_callbacks))]
  /\ pc' = [pc EXCEPT ![s] = "loop"]
  /\ UNCHANGED <<mgrVars, regVars, ctxErr, ctxTimeout, callbacks, errClosed,
                 done, tasks, log, panicked, waitVars, histVars, hookVars,
                 healthVars>>

\* One iteration of the loop: wg.Add(1); fn := callbacks[i]; go func() {...}()
\* The goroutine will call fn(ctx) with the ctx of this session.
ShutdownLaunch(s) ==
  /\ ~panicked
  /\ pc[s] = "loop"
  /\ LoopCond(i[s])
  /\ wg' = [wg EXCEPT ![s] = @ + 1]
  /\ tasks' = [tasks EXCEPT ![s] = Append(@,
       [fn |-> PickCallback(LoopSlice(callbacks[s], m_callbacks), i[s]),
        named |-> regNamed[PickCallback(LoopSlice(callbacks[s], m_callbacks),
                                        i[s])],
        ctx |-> s, st |-> "spawned", res |-> "none", fnres |-> "none",
        fnctx |-> 0, late |-> FALSE, expired |-> FALSE])]
  /\ i' = [i EXCEPT ![s] = LoopStep(@)]
  /\ UNCHANGED <<mgrVars, regVars, pc, ctxErr, ctxTimeout, callbacks,
                 errChan, errCap, errClosed, done, log, panicked, waitVars,
                 histVars, hookVars, healthVars>>

\* The loop ends; done := make(chan struct{}); go func() { wg.Wait(); close(done) }()
ShutdownLoopExit(s) ==
  /\ ~panicked
  /\ pc[s] = "loop"
  /\ ~LoopCond(i[s])
  /\ done' = [done EXCEPT ![s] = "open"]
  /\ pc' = [pc EXCEPT ![s] = "select"]
  /\ UNCHANGED <<mgrVars, regVars, ctxErr, ctxTimeout, callbacks, i, wg,
                 errChan, errCap, errClosed, tasks, log, panicked, waitVars,
                 histVars, hookVars, healthVars>>

\* select { case <-done: Info(...)  case <-ctx.Done(): Warn(...) }
\* A case can be chosen when its channel is closed; either, when both are.
ShutdownSelect(s) ==
  /\ ~panicked
  /\ pc[s] = "select"
  /\ \/ /\ done[s] = "closed"
        /\ log' = Append(log,
             Event(s, "info", "graceful shutdown completed", 0))
     \/ /\ CtxDone(ctxErr[s])
        /\ log' = Append(log,
             Event(s, "warn", "graceful shutdown timeout, forcing exit", 0))
  /\ endCtx' = [endCtx EXCEPT ![s] = ctxErr[s]]
  /\ pc' = [pc EXCEPT ![s] = "close"]
  /\ UNCHANGED <<mgrVars, regVars, ctxErr, ctxTimeout, callbacks, i, wg,
                 errChan, errCap, errClosed, done, tasks, panicked, waitVars,
                 regAfterCopy, invoked, regOrder, supplied, doneBeforeExpiry,
                 sawSetup, hookVars, healthVars>>

\* close(errChan)
ShutdownClose(s) ==
  /\ ~panicked
  /\ pc[s] = "close"
  /\ errClosed' = [errClosed EXCEPT ![s] = TRUE]
  /\ pc' = [pc EXCEPT ![s] = "drain"]
  /\ UNCHANGED <<mgrVars, regVars, ctxErr, ctxTimeout, callbacks, i, wg,
                 errChan, errCap, done, tasks, log, panicked, waitVars,
                 histVars, hookVars, healthVars>>

\* for err := range errChan { m.logger.Error("shutdown error", log.Err(err)) }
ShutdownDrain(s) ==
  /\ ~panicked
  /\ pc[s] = "drain"
  /\ errChan[s] # <<>>
  /\ log' = Append(log,
       Event(s, "error", "shutdown error", NextError(errChan[s])))
  /\ errChan' = [errChan EXCEPT ![s] = Tail(@)]
  /\ UNCHANGED <<mgrVars, regVars, pc, ctxErr, ctxTimeout, callbacks, i, wg,
                 errCap, errClosed, done, tasks, panicked, waitVars,
                 histVars, hookVars, healthVars>>

\* The range loop ends on the closed, empty channel; the deferred cancel()
\* runs and Shutdown returns.
ShutdownReturn(s) ==
  /\ ~panicked
  /\ pc[s] = "drain"
  /\ errChan[s] = <<>>
  /\ ctxErr' = [ctxErr EXCEPT ![s] = IF @ = "none" THEN "canceled" ELSE @]
  /\ pc' = [pc EXCEPT ![s] = "done"]
  /\ UNCHANGED <<mgrVars, regVars, ctxTimeout, callbacks, i, wg, errChan,
                 errCap, errClosed, done, tasks, log, panicked, waitVars,
                 histVars, hookVars, healthVars>>

\* The timer of context.WithTimeout fires, m.timeout after the session
\* began: ctx.Done() is closed.
Expire(s) ==
  /\ ~panicked
  /\ ctxErr[s] = "none"
  /\ ctxErr' = [ctxErr EXCEPT ![s] = "deadline"]
  /\ doneBeforeExpiry' = [doneBeforeExpiry EXCEPT ![s] =
       Launched(s) /\ \A t \in DOMAIN tasks[s] : tasks[s][t].st = "exited"]
  /\ UNCHANGED <<mgrVars, regVars, pc, ctxTimeout, callbacks, i, wg, errChan,
                 errCap, errClosed, done, tasks, log, panicked, waitVars,
                 regAfterCopy, invoked, endCtx, regOrder, supplied, sawSetup,
                 hookVars, healthVars>>

\* ------------------------------------------- the goroutine of one callback

\* The goroutine is scheduled and calls the registered function with ctx:
\* fn itself ...
TaskInvoke(s, t) ==
  /\ ~panicked
  /\ t \in DOMAIN tasks[s]
  /\ tasks[s][t].st = "spawned"
  /\ ~tasks[s][t].named
  /\ tasks' = [tasks EXCEPT ![s][t].st = "running",
                            ![s][t].fnctx = tasks[s][t].ctx]
  /\ invoked' = [invoked EXCEPT ![s][tasks[s][t].fn] = @ + 1]
  /\ UNCHANGED <<mgrVars, regVars, pc, ctxErr, ctxTimeout, callbacks, i, wg,
                 errChan, errCap, errClosed, done, log, panicked, waitVars,
                 regAfterCopy, endCtx, regOrder, supplied, doneBeforeExpiry,
                 sawSetup, hookVars, healthVars>>

\* ... or the wrapper that RegisterWithName registered.
TaskWrapper(s, t) ==
  /\ ~panicked
  /\ t \in DOMAIN tasks[s]
  /\ tasks[s][t].st = "spawned"
  /\ tasks[s][t].named
  /\ tasks' = [tasks EXCEPT ![s][t].st = "wrapper"]
  /\ UNCHANGED <<mgrVars, regVars, pc, ctxErr, ctxTimeout, callbacks, i, wg,
                 errChan, errCap, errClosed, done, log, panicked, waitVars,
                 histVars, hookVars, healthVars>>

\* The wrapper: m.logger.Info("shutting down component", ...), then fn(ctx).
TaskComponent(s, t) ==
  /\ ~panicked
  /\ t \in DOMAIN tasks[s]
  /\ tasks[s][t].st = "wrapper"
  /\ log' = Append(log,
       Event(s, "info", "shutting down component", tasks[s][t].fn))
  /\ tasks' = [tasks EXCEPT ![s][t].st = "running",
                            ![s][t].fnctx = tasks[s][t].ctx]
  /\ invoked' = [invoked EXCEPT ![s][tasks[s][t].fn] = @ + 1]
  /\ UNCHANGED <<mgrVars, regVars, pc, ctxErr, ctxTimeout, callbacks, i, wg,
                 errChan, errCap, errClosed, done, panicked, waitVars,
                 regAfterCopy, endCtx, regOrder, supplied, doneBeforeExpiry,
                 sawSetup, hookVars, healthVars>>

\* fn(ctx) returns r: nil or its error (the wrapper, if any, returns what fn
\* returned).  A callback that blocks forever never takes this step.
TaskReturn(s, t, r) ==
  /\ ~panicked
  /\ t \in DOMAIN tasks[s]
  /\ tasks[s][t].st = "running"
  /\ tasks' = [tasks EXCEPT
       ![s][t].st = "returned",
       ![s][t].fnres = r,
       ![s][t].res = IF tasks[s][t].named THEN WrapperResult(r) ELSE r,
       ![s][t].late = pc[s] \in {"close", "drain", "done"},
       ![s][t].expired = ctxErr[s] = "deadline"]
  /\ ctxErr' = [ctxErr EXCEPT ![s] = CtxAfterTask(@, r)]
  /\ UNCHANGED <<mgrVars, regVars, pc, ctxTimeout, callbacks, i, wg, errChan,
                 errCap, errClosed, done, log, panicked, waitVars, histVars,
                 hookVars, healthVars>>

\* errChan <- err: panics on a closed channel, blocks on a full one.
TaskSend(s, t) ==
  /\ ~panicked
  /\ t \in DOMAIN tasks[s]
  /\ tasks[s][t].st = "returned"
  /\ ShouldSend(tasks[s][t].res)
  /\ \/ /\ errClosed[ErrChanOf(s)]
        /\ panicked' = TRUE
        /\ UNCHANGED <<errChan, tasks>>
     \/ /\ ~errClosed[ErrChanOf(s)]
        /\ Len(errChan[ErrChanOf(s)]) < errCap[ErrChanOf(s)]
        /\ errChan' = [errChan EXCEPT
                         ![ErrChanOf(s)] = Append(@, tasks[s][t].fn)]
        /\ tasks' = [tasks EXCEPT ![s][t].st = "sent"]
        /\ UNCHANGED panicked
  /\ UNCHANGED <<mgrVars, regVars, pc, ctxErr, ctxTimeout, callbacks, i, wg,
                 errCap, errClosed, done, log, waitVars, histVars, hookVars,
                 healthVars>>

\* The deferred wg.Done() runs and the goroutine ends.
TaskDone(s, t) ==
  /\ ~panicked
  /\ t \in DOMAIN tasks[s]
  /\ \/ tasks[s][t].st = "sent"
     \/ tasks[s][t].st = "returned" /\ ~ShouldSend(tasks[s][t].res)
  /\ tasks' = [tasks EXCEPT ![s][t].st = "exited"]
  /\ wg' = [wg EXCEPT ![s] = @ - 1]
  /\ UNCHANGED <<mgrVars, regVars, pc, ctxErr, ctxTimeout, callbacks, i,
                 errChan, errCap, errClosed, done, log, panicked, waitVars,
                 histVars, hookVars, healthVars>>

\* The waiting goroutine: wg.Wait() returns, close(done).
WaiterClose(s) ==
  /\ ~panicked
  /\ done[s] = "open"
  /\ WaitGroupZero(wg[s])
  /\ done' = [done EXCEPT ![s] = "closed"]
  /\ UNCHANGED <<mgrVars, regVars, pc, ctxErr, ctxTimeout, callbacks, i, wg,
                 errChan, errCap, errClosed, tasks, log, panicked, waitVars,
                 histVars, hookVars, healthVars>>

\* ---------------------------------------------------------- Manager.Wait

\* quit := make(chan os.Signal, 1)
QuitCap == 1

\* Mutant of ShutdownReturned: Wait does not wait for Shutdown.
ShutdownReturnedAlways(p) == TRUE

\* The call m.Shutdown() in Wait has returned.
ShutdownReturned(p) == p = "done"

\* quit := make(chan os.Signal, 1); signal.Notify(quit, SIGINT, SIGTERM,
\* SIGQUIT); Wait then blocks in sig := <-quit
WaitNotify ==
  /\ ~panicked
  /\ wpc = "notify"
  /\ quit' = <<>>
  /\ wpc' = "blocked"
  /\ UNCHANGED <<mgrVars, regVars, sdVars, sig, histVars, hookVars,
                 healthVars>>

\* The process is sent one of the signals Wait asked for: the runtime puts
\* it in quit unless quit is full.
Signal(g) ==
  /\ ~panicked
  /\ wpc \in {"blocked", "log", "call", "running", "returned"}
  /\ Len(quit) < QuitCap
  /\ quit' = Append(quit, g)
  /\ UNCHANGED <<mgrVars, regVars, sdVars, wpc, sig, histVars, hookVars,
                 healthVars>>

\* sig := <-quit
WaitReceive ==
  /\ ~panicked
  /\ wpc = "blocked"
  /\ quit # <<>>
  /\ sig' = Head(quit)
  /\ quit' = Tail(quit)
  /\ wpc' = "log"
  /\ UNCHANGED <<mgrVars, regVars, sdVars, histVars, hookVars, healthVars>>

\* m.logger.Info("received shutdown signal", log.String("signal", sig.String()))
WaitLog ==
  /\ ~panicked
  /\ wpc = "log"
  /\ log' = Append(log, Event(0, "info", "received shutdown signal", sig))
  /\ wpc' = "call"
  /\ UNCHANGED <<mgrVars, regVars, pc, ctxErr, ctxTimeout, callbacks, i, wg,
                 errChan, errCap, errClosed, done, tasks, panicked, quit,
                 sig, histVars, hookVars, healthVars>>

\* m.Shutdown() is called ...
WaitShutdown ==
  /\ ~panicked
  /\ wpc = "call"
  /\ wpc' = "running"
  /\ UNCHANGED <<mgrVars, regVars, sdVars, quit, sig, histVars, hookVars,
                 healthVars>>

\* ... and when it has returned, Wait returns.
WaitReturn ==
  /\ ~panicked
  /\ wpc = "running"
  /\ ShutdownReturned(pc[1])
  /\ wpc' = "returned"
  /\ UNCHANGED <<mgrVars, regVars, sdVars, quit, sig, histVars, hookVars,
                 healthVars>>

\* ------------------------------------------------- health.Handler.Check

HCallers == 1..MaxCheckers

\* StatusUp, StatusDown, StatusUnknown
Statuses == {"UP", "DOWN", "UNKNOWN"}

\* sync.RWMutex: Lock proceeds when nobody holds it, RLock when no writer does.
CanWLock(m) == m = <<"free">>
CanRLock(m) == m[1] # "writer"

\* checkers := make([]Checker, len(h.checkers)); copy(checkers, h.checkers)
CopyCheckers(live) == [k \in 1..Len(live) |-> live[k]]

\* if check.Status != StatusUp { result.Status = StatusDown }
NextStatus(cur, st) == IF st # "UP" THEN "DOWN" ELSE cur

\* Mutant of RangeEnds: the loop also ends when the context is done, as the
\* select of Shutdown does.
RangeEndsOnTimeout(closed, ch, e) == (closed /\ ch = <<>>) \/ CtxDone(e)

\* for check := range checkResults ends when the channel is closed and empty;
\* the context has no part in it.
RangeEnds(closed, ch, e) == closed /\ ch = <<>>

NoResult == [status |-> "none", checks |-> <<>>]

\* The state after h := NewHandler(version): nothing registered; the callers
\* are about to call h.Register and one goroutine is about to call h.Check.
HealthInit ==
  /\ h_checkers = <<>>
  /\ h_mu = <<"free">>
  /\ h_rpc = [c \in HCallers |-> "call"]
  /\ c_pc = "rlock"
  /\ checkers = <<>>
  /\ c_ctx = "unset"
  /\ result = NoResult
  /\ c_wg = 0
  /\ checkResults = <<>>
  /\ c_cap = 0
  /\ c_closed = FALSE
  /\ c_tasks = <<>>
  /\ c_ret = NoResult

\* Caller c calls h.Register(checker) with the checker named c: h.mu.Lock()
HRegisterLock(c) ==
  /\ ~panicked
  /\ h_rpc[c] = "call"
  /\ CanWLock(h_mu)
  /\ h_mu' = <<"writer", c>>
  /\ h_rpc' = [h_rpc EXCEPT ![c] = "append"]
  /\ UNCHANGED <<mgrVars, regVars, sdVars, waitVars, histVars, hookVars,
                 h_checkers, c_pc, checkers, c_ctx, result, c_wg,
                 checkResults, c_cap, c_closed, c_tasks, c_ret>>

\* h.checkers = append(h.checkers, checker); the deferred Unlock runs.
HRegisterAppend(c) ==
  /\ ~panicked
  /\ h_rpc[c] = "append"
  /\ h_checkers' = Append(h_checkers, c)
  /\ h_mu' = <<"free">>
  /\ h_rpc' = [h_rpc EXCEPT ![c] = "returned"]
  /\ UNCHANGED <<mgrVars, regVars, sdVars, waitVars, histVars, hookVars,
                 c_pc, checkers, c_ctx, result, c_wg, checkResults, c_cap,
                 c_closed, c_tasks, c_ret>>

\* Check is called: h.mu.RLock()
CheckRLock ==
  /\ ~panicked
  /\ c_pc = "rlock"
  /\ CanRLock(h_mu)
  /\ h_mu' = <<"reader">>
  /\ c_pc' = "copy"
  /\ UNCHANGED <<mgrVars, regVars, sdVars, waitVars, histVars, hookVars,
                 h_checkers, h_rpc, checkers, c_ctx, result, c_wg,
                 checkResults, c_cap, c_closed, c_tasks, c_ret>>

\* checkers := make(...); copy(checkers, h.checkers)
CheckCopy ==
  /\ ~panicked
  /\ c_pc = "copy"
  /\ checkers' = CopyCheckers(h_checkers)
  /\ c_pc' = "runlock"
  /\ UNCHANGED <<mgrVars, regVars, sdVars, waitVars, histVars, hookVars,
                 h_checkers, h_mu, h_rpc, c_ctx, result, c_wg, checkResults,
                 c_cap, c_closed, c_tasks, c_ret>>

\* h.mu.RUnlock()
CheckRUnlock ==
  /\ ~panicked
  /\ c_pc = "runlock"
  /\ h_mu' = <<"free">>
  /\ c_pc' = "make"
  /\ UNCHANGED <<mgrVars, regVars, sdVars, waitVars, histVars, hookVars,
                 h_checkers, h_rpc, checkers, c_ctx, result, c_wg,
                 checkResults, c_cap, c_closed, c_tasks, c_ret>>

\* ctx, cancel := context.WithTimeout(ctx, h.timeout); result := Result{
\* Status: StatusUp, ...}; var wg sync.WaitGroup;
\* checkResults := make(chan Check, len(checkers))
CheckMake ==
  /\ ~panicked
  /\ c_pc = "make"
  /\ c_ctx' = "none"
  /\ result' = [status |-> "UP", checks |-> <<>>]
  /\ c_wg' = 0
  /\ checkResults' = <<>>
  /\ c_cap' = Len(checkers)
  /\ c_pc' = "loop"
  /\ UNCHANGED <<mgrVars, regVars, sdVars, waitVars, histVars, hookVars,
                 h_checkers, h_mu, h_rpc, checkers, c_closed, c_tasks, c_ret>>

\* One iteration of for _, checker := range checkers: wg.Add(1) and
\* go func(c Checker) {...}(checker); the goroutine calls c.Check(ctx).
CheckLaunch ==
  /\ ~panicked
  /\ c_pc = "loop"
  /\ Len(c_tasks) < Len(checkers)
  /\ c_wg' = c_wg + 1
  /\ c_tasks' = Append(c_tasks,
       [c |-> checkers[Len(c_tasks) + 1], st |-> "running", res |-> "none"])
  /\ UNCHANGED <<mgrVars, regVars, sdVars, waitVars, histVars, hookVars,
                 h_checkers, h_mu, h_rpc, c_pc, checkers, c_ctx, result,
                 checkResults, c_cap, c_closed, c_ret>>

\* The loop ends; go func() { wg.Wait(); close(checkResults) }(); Check
\* begins to receive from checkResults.
CheckLoopExit ==
  /\ ~panicked
  /\ c_pc = "loop"
  /\ Len(c_tasks) = Len(checkers)
  /\ c_pc' = "range"
  /\ UNCHANGED <<mgrVars, regVars, sdVars, waitVars, histVars, hookVars,
                 h_checkers, h_mu, h_rpc, checkers, c_ctx, result, c_wg,
                 checkResults, c_cap, c_closed, c_tasks, c_ret>>

\* The waiting goroutine: wg.Wait() returns, close(checkResults).
CheckWaiterClose ==
  /\ ~panicked
  /\ c_pc \in {"range", "returned"}
  /\ ~c_closed
  /\ c_wg = 0
  /\ c_closed' = TRUE
  /\ UNCHANGED <<mgrVars, regVars, sdVars, waitVars, histVars, hookVars,
                 h_checkers, h_mu, h_rpc, c_pc, checkers, c_ctx, result,
                 c_wg, checkResults, c_cap, c_tasks, c_ret>>

\* One iteration of for check := range checkResults:
\* result.Checks = append(result.Checks, check); the status goes DOWN when
\* the check is not UP.
CheckReceive ==
  /\ ~panicked
  /\ c_pc = "range"
  /\ checkResults # <<>>
  /\ result' = [status |-> NextStatus(result.status, Head(checkResults).status),
                checks |-> Append(result.checks, Head(checkResults))]
  /\ checkResults' = Tail(checkResults)
  /\ UNCHANGED <<mgrVars, regVars, sdVars, waitVars, histVars, hookVars,
                 h_checkers, h_mu, h_rpc, c_pc, checkers, c_ctx, c_wg, c_cap,
                 c_closed, c_tasks, c_ret>>

\* The range loop ends; return result, and the deferred cancel() runs.
CheckReturn ==
  /\ ~panicked
  /\ c_pc = "range"
  /\ RangeEnds(c_closed, checkResults, c_ctx)
  /\ c_ret' = result
  /\ c_ctx' = IF c_ctx = "none" THEN "canceled" ELSE c_ctx
  /\ c_pc' = "returned"
  /\ UNCHANGED <<mgrVars, regVars, sdVars, waitVars, histVars, hookVars,
                 h_checkers, h_mu, h_rpc, checkers, result, c_wg,
                 checkResults, c_cap, c_closed, c_tasks>>

\* The timer of context.WithTimeout fires (or the parent context is
\* cancelled): ctx.Done() is closed.
CheckExpire ==
  /\ ~panicked
  /\ c_ctx = "none"
  /\ c_ctx' = "deadline"
  /\ UNCHANGED <<mgrVars, regVars, sdVars, waitVars, histVars, hookVars,
                 h_checkers, h_mu, h_rpc, c_pc, checkers, result, c_wg,
                 checkResults, c_cap, c_closed, c_tasks, c_ret>>

\* c.Check(ctx) returns a Check with the checker's name and status st.  A
\* checker that never returns never takes this step.
CheckerReturn(t, st) ==
  /\ ~panicked
  /\ t \in DOMAIN c_tasks
  /\ c_tasks[t].st = "running"
  /\ c_tasks' = [c_tasks EXCEPT
       ![t].st = "returned",
       ![t].res = [name |-> c_tasks[t].c, status |-> st]]
  /\ UNCHANGED <<mgrVars, regVars, sdVars, waitVars, histVars, hookVars,
                 h_checkers, h_mu, h_rpc, c_pc, checkers, c_ctx, result,
                 c_wg, checkResults, c_cap, c_closed, c_ret>>

\* checkResults <- ...: panics on a closed channel, blocks on a full one.
CheckerSend(t) ==
  /\ ~panicked
  /\ t \in DOMAIN c_tasks
  /\ c_tasks[t].st = "returned"
  /\ \/ /\ c_closed
        /\ panicked' = TRUE
        /\ UNCHANGED <<checkResults, c_tasks>>
     \/ /\ ~c_closed
        /\ Len(checkResults) < c_cap
        /\ checkResults' = Append(checkResults, c_tasks[t].res)
        /\ c_tasks' = [c_tasks EXCEPT ![t].st = "sent"]
        /\ UNCHANGED panicked
  /\ UNCHANGED <<mgrVars, regVars, pc, ctxErr, ctxTimeout, callbacks, i, wg,
                 errChan, errCap, errClosed, done, tasks, log, waitVars,
                 histVars, hookVars, h_checkers, h_mu, h_rpc, c_pc, checkers,
                 c_ctx, result, c_wg, c_cap, c_closed, c_ret>>

\* The deferred wg.Done() runs and the goroutine ends.
CheckerDone(t) ==
  /\ ~panicked
  /\ t \in DOMAIN c_tasks
  /\ c_tasks[t].st = "sent"
  /\ c_tasks' = [c_tasks EXCEPT ![t].st = "exited"]
  /\ c_wg' = c_wg - 1
  /\ UNCHANGED <<mgrVars, regVars, sdVars, waitVars, histVars, hookVars,
                 h_checkers, h_mu, h_rpc, c_pc, checkers, c_ctx, result,
                 checkResults, c_cap, c_closed, c_ret>>

\* The steps of the goroutine that runs Check.
CheckStep ==
  \/ CheckRLock
  \/ CheckCopy
  \/ CheckRUnlock
  \/ CheckMake
  \/ CheckLaunch
  \/ CheckLoopExit
  \/ CheckReceive
  \/ CheckReturn

HealthNext ==
  \/ \E c \in HCallers : HRegisterLock(c) \/ HRegisterAppend(c)
  \/ CheckStep
  \/ CheckWaiterClose
  \/ CheckExpire
  \/ \E t \in HCallers :
       \/ \E st \in Statuses : CheckerReturn(t, st)
       \/ CheckerSend(t)
       \/ CheckerDone(t)

\* ------------------------------------------------- SetupGracefulShutdown

Unreturned == [id |-> -1, timeout |-> 0, logger |-> "none"]
NoArgs == [timeout |-> 0, logger |-> "none"]

\* Mutant of OnceMustRun: a check of "has it finished" without the lock.
OnceMustRunUnlessDone(o) == o # "done"

\* sync.Once.Do runs its function only for the call that finds it unused.
OnceMustRun(o) == o = "fresh"

\* A goroutine calls SetupGracefulShutdown(timeout, logger).
SetupCall(s, t, l) ==
  /\ spc[s] = "idle"
  /\ scalls[s] < MaxSetupCalls
  /\ spc' = [spc EXCEPT ![s] = "do"]
  /\ sargs' = [sargs EXCEPT ![s] = [timeout |-> t, logger |-> l]]
  /\ scalls' = [scalls EXCEPT ![s] = @ + 1]
  /\ UNCHANGED <<mgrVars, regVars, sdVars, waitVars, histVars, once,
                 hookManager, created, sret, firstArgs, healthVars>>

\* defaultHook.once.Do(...): the first call goes on to run the function; a
\* call made while it runs waits; a call made after it has run skips it.
SetupDo(s) ==
  /\ spc[s] = "do"
  /\ \/ /\ OnceMustRun(once)
        /\ once' = "running"
        /\ spc' = [spc EXCEPT ![s] = "init"]
        /\ firstArgs' = IF firstArgs = NoArgs THEN sargs[s] ELSE firstArgs
     \/ /\ ~OnceMustRun(once)
        /\ once = "done"
        /\ spc' = [spc EXCEPT ![s] = "return"]
        /\ UNCHANGED <<once, firstArgs>>
  /\ UNCHANGED <<mgrVars, regVars, sdVars, waitVars, histVars, hookManager,
                 created, sargs, sret, scalls, healthVars>>

\* defaultHook.manager = NewManager(timeout, logger); once.Do returns.
SetupInit(s) ==
  /\ spc[s] = "init"
  /\ created' = created + 1
  /\ hookManager' = NewManager(created + 1, sargs[s].timeout, sargs[s].logger)
  /\ once' = "done"
  /\ spc' = [spc EXCEPT ![s] = "return"]
  /\ UNCHANGED <<mgrVars, regVars, sdVars, waitVars, histVars, sargs, sret,
                 scalls, firstArgs, healthVars>>

\* return defaultHook.manager
SetupReturn(s) ==
  /\ spc[s] = "return"
  /\ sret' = [sret EXCEPT ![s] = hookManager]
  /\ spc' = [spc EXCEPT ![s] = "idle"]
  /\ UNCHANGED <<mgrVars, regVars, sdVars, waitVars, histVars, once,
                 hookManager, created, sargs, scalls, firstArgs, healthVars>>

\* ------------------------- package-level Register, RegisterWithName, Wait

\* Mutant of HasManager: the nil check left out.
HasManagerAlways(m) == TRUE

\* if defaultHook.manager != nil
HasManager(m) == m # NoManager

\* What has happened of SetupGracefulShutdown by now: whether a call of it
\* has begun, and whether a call of it has returned.
SetupSeen ==
  [begun |-> \E x \in SetupCallers : scalls[x] > 0,
   returned |-> \E x \in SetupCallers : sret[x] # Unreturned]

NotSeen == [begun |-> FALSE, returned |-> FALSE]

\* Package-level Register(fn) or RegisterWithName(name, fn), by caller c:
\* with a Manager it calls the Manager's method, without one it returns.
PkgRegister(c) ==
  /\ ~panicked
  /\ rpc[c] = "pkgcall"
  /\ rpc' = [rpc EXCEPT ![c] = IF HasManager(hookManager)
                                THEN "call" ELSE "skipped"]
  /\ sawSetup' = [sawSetup EXCEPT ![c] = SetupSeen]
  /\ UNCHANGED <<mgrVars, rtmp, regNamed, sdVars, waitVars, regAfterCopy,
                 invoked, endCtx, regOrder, supplied, doneBeforeExpiry,
                 hookVars, healthVars>>

\* Package-level Wait(): with a Manager it calls m.Wait(), without one it
\* returns.  (Entry 0 of sawSetup is that of Wait.)
PkgWait ==
  /\ ~panicked
  /\ wpc = "pkgcall"
  /\ wpc' = IF HasManager(hookManager) THEN "notify" ELSE "skipped"
  /\ sawSetup' = [sawSetup EXCEPT ![0] = SetupSeen]
  /\ UNCHANGED <<mgrVars, regVars, sdVars, quit, sig, regAfterCopy, invoked,
                 endCtx, regOrder, supplied, doneBeforeExpiry, hookVars,
                 healthVars>>

\* ------------------------------------------------------- specifications

\* The state after m := NewManager(timeout, logger), with timeout drawn from
\* ts.  The callers in active are about to make their Register call, from
\* position r, through RegisterWithName if their entry of regNamed (drawn
\* from nameds) says so; Wait is at position w ("off": it is not called).
InitWith(ts, nameds, active, r, w) ==
  /\ supplied \in ts
  /\ m_timeout = NewManager(1, supplied, "logA").timeout
  /\ m_callbacks = <<>>
  /\ mu = <<"free">>
  /\ rpc = [c \in Callers |-> IF c \in active THEN r ELSE "off"]
  /\ rtmp = [c \in Callers |-> <<>>]
  /\ regNamed \in {f \in [Callers -> nameds \cup {FALSE}] :
                     \A c \in Callers \ active : ~f[c]}
  /\ pc = [s \in Sessions |-> "idle"]
  /\ ctxErr = [s \in Sessions |-> "unset"]
  /\ ctxTimeout = [s \in Sessions |-> 0]
  /\ callbacks = [s \in Sessions |-> <<>>]
  /\ i = [s \in Sessions |-> 0]
  /\ wg = [s \in Sessions |-> 0]
  /\ errChan = [s \in Sessions |-> <<>>]
  /\ errCap = [s \in Sessions |-> 0]
  /\ errClosed = [s \in Sessions |-> FALSE]
  /\ done = [s \in Sessions |-> "unset"]
  /\ tasks = [s \in Sessions |-> <<>>]
  /\ log = <<>>
  /\ panicked = FALSE
  /\ wpc = w
  /\ quit = <<>>
  /\ sig = 0
  /\ regAfterCopy = [s \in Sessions |-> {}]
  /\ invoked = [s \in Sessions |-> [o \in Ops |-> 0]]
  /\ endCtx = [s \in Sessions |-> "unset"]
  /\ regOrder = <<>>
  /\ doneBeforeExpiry = [s \in Sessions |-> FALSE]
  /\ sawSetup = [c \in {0} \cup Callers |-> NotSeen]
  /\ once = "fresh"
  /\ hookManager = NoManager
  /\ created = 0
  /\ spc = [s \in SetupCallers |-> "idle"]
  /\ sargs = [s \in SetupCallers |-> NoArgs]
  /\ sret = [s \in SetupCallers |-> Unreturned]
  /\ scalls = [s \in SetupCallers |-> 0]
  /\ firstArgs = NoArgs
  /\ HealthInit

\* A Manager with a timeout of 5 seconds; every caller registers its callback
\* with Register; Shutdown is called by the application.
Init == InitWith({5}, {FALSE}, Callers, "call", "off")

\* The steps of the goroutine that runs session s of Shutdown.
ShutdownStep(s) ==
  \/ ShutdownStart(s)
  \/ ShutdownLock(s)
  \/ ShutdownCopy(s)
  \/ ShutdownUnlock(s)
  \/ ShutdownMake(s)
  \/ ShutdownLaunch(s)
  \/ ShutdownLoopExit(s)
  \/ ShutdownSelect(s)
  \/ ShutdownClose(s)
  \/ ShutdownDrain(s)
  \/ ShutdownReturn(s)

RegisterStep ==
  \E c \in Callers :
    \/ RegisterLock(c)
    \/ RegisterRead(c)
    \/ RegisterWrite(c)

TaskStep(s) ==
  \E t \in Ops :
    \/ TaskInvoke(s, t)
    \/ \E r \in {"nil", "err"} : TaskReturn(s, t, r)
    \/ TaskSend(s, t)
    \/ TaskDone(s, t)

\* The steps of the wrapper of RegisterWithName.
WrapperStep(s) ==
  \E t \in Ops :
    \/ TaskWrapper(s, t)
    \/ TaskComponent(s, t)

\* Every action requires ~panicked: an unrecovered panic ends the process
\* and no goroutine takes another step.
Next ==
  \/ RegisterStep
  \/ ShutdownStep(1)
  \/ TaskStep(1)
  \/ WaiterClose(1)
  \/ Expire(1)

Spec == Init /\ [][Next]_vars

\* The goroutine of Shutdown, the waiting goroutine and the timer are
\* scheduled; a callback need never return.
FairSpec ==
  /\ Spec
  /\ WF_vars(ShutdownStep(1))
  /\ WF_vars(WaiterClose(1))
  /\ WF_vars(Expire(1))
  /\ WF_vars(RegisterStep)

SetupStep ==
  \E s \in SetupCallers :
    \/ \E t \in Timeouts, l \in Loggers : SetupCall(s, t, l)
    \/ SetupDo(s)
    \/ SetupInit(s)
    \/ SetupReturn(s)

SetupSpec == Init /\ [][SetupStep]_vars

\* NewManager called with any timeout, then one session.
DeadlineInit == InitWith(Timeouts, {FALSE}, FewCallers, "call", "off")

DeadlineSpec == DeadlineInit /\ [][Next]_vars

\* The application calls Wait and never Shutdown itself.
WaitInit == InitWith({5}, {FALSE}, FewCallers, "call", "notify")

WaitStep ==
  \/ WaitNotify
  \/ \E g \in Signals : Signal(g)
  \/ WaitReceive
  \/ WaitLog
  \/ WaitShutdown
  \/ WaitReturn

WaitNext ==
  \/ WaitStep
  \/ Next

WaitSpec == WaitInit /\ [][WaitNext]_vars

\* Callbacks are registered with Register or with RegisterWithName.
NamedInit == InitWith({5}, {TRUE}, FewCallers, "call", "off")

NamedNext ==
  \/ Next
  \/ WrapperStep(1)

NamedSpec == NamedInit /\ [][NamedNext]_vars

\* Two calls of Shutdown, the second at any time during or after the first,
\* and one Register call, made at any time: before, between or after the
\* moments the two sessions copy the registry.
TwoCallers == {1}

TwoInit == InitWith({5}, {FALSE}, TwoCallers, "call", "off")

TwoNext ==
  \/ RegisterStep
  \/ \E s \in Sessions :
       \/ ShutdownStep(s)
       \/ TaskStep(s)
       \/ WaiterClose(s)
       \/ Expire(s)

TwoSpec == TwoInit /\ [][TwoNext]_vars

\* The package-level functions, called while one goroutine sets the package
\* up (or before it does, or after).
PkgInit == InitWith({5}, {TRUE}, FewCallers, "pkgcall", "pkgcall")

PkgNext ==
  \/ \E t \in Timeouts : SetupCall(1, t, "logA")
  \/ SetupDo(1)
  \/ SetupInit(1)
  \/ SetupReturn(1)
  \/ \E c \in Callers : PkgRegister(c)
  \/ PkgWait
  \/ RegisterStep

PkgSpec == PkgInit /\ [][PkgNext]_vars

\* The health Handler: Register calls and one call of Check.
HealthSpec == Init /\ [][HealthNext]_vars

\* ------------------------------------------------------------- helpers

Range(q) == {q[k] : k \in DOMAIN q}

\* The events session s logged, in order.
IsOf(s, e) == e[1] = s
SessionLog(s) == SelectSeq(log, LAMBDA e : IsOf(s, e))

Completed(s) == Event(s, "info", "graceful shutdown completed", 0)
TimedOut(s) == Event(s, "warn", "graceful shutdown timeout, forcing exit", 0)
ErrorEvent(s, o) == Event(s, "error", "shutdown error", o)
ComponentEvent(s, o) == Event(s, "info", "shutting down component", o)

\* Number of events of a kind in the log of session s.
Count(s, e) == Cardinality({k \in DOMAIN log : log[k] = e})
CountInfo(s) == Count(s, Completed(s))
CountWarn(s) == Count(s, TimedOut(s))
CountError(s) ==
  Cardinality({k \in DOMAIN log : log[k][1] = s /\ log[k][2] = "error"})
ErrorEventsOf(s, o) == Count(s, ErrorEvent(s, o))

AllReturned(s) ==
  Launched(s) /\ \A t \in DOMAIN tasks[s] : tasks[s][t].res # "none"
AllReturnedNil(s) ==
  Launched(s) /\ \A t \in DOMAIN tasks[s] : tasks[s][t].res = "nil"
AllReturnedBeforeExpiry(s) ==
  AllReturned(s) /\ \A t \in DOMAIN tasks[s] : ~tasks[s][t].expired
Failed(s) == {t \in DOMAIN tasks[s] : tasks[s][t].res = "err"}

\* ------------------------------------------------------------------ C1

\* C1: Shutdown always returns once the deadline has expired: after the
\* launches, with the deadline expired, the goroutine of Shutdown always has
\* a step to take until it has returned (it is never made to wait for a
\* callback, and nothing stops it).
C1_ReturnsOnceExpired ==
  (Launched(1) /\ pc[1] # "done" /\ ctxErr[1] = "deadline")
    => ENABLED ShutdownStep(1)

\* ------------------------------------------------------------------ C2

\* C2 as stated: when every callback has returned nil before the deadline
\* expired, the session logs exactly one completion event and nothing else.
C2_AllNilBeforeExpiryCompletes ==
  (pc[1] = "done" /\ AllReturnedBeforeExpiry(1) /\ AllReturnedNil(1))
    => log = << Completed(1) >>

\* C2 amended: when every callback returns nil, the session logs no error
\* event and exactly one outcome event, and that event is the completion
\* event whenever the deadline has not expired when the select ends the wait.
C2_AllNilCompletesUnlessExpired ==
  (pc[1] = "done" /\ AllReturnedNil(1))
    => /\ CountError(1) = 0
       /\ CountInfo(1) + CountWarn(1) = 1
       /\ endCtx[1] # "deadline" => log = << Completed(1) >>

C2_Witness ==
  /\ pc[1] = "done"
  /\ Len(tasks[1]) = MaxOps
  /\ AllReturnedNil(1)
  /\ endCtx[1] = "none"
  /\ log = << Completed(1) >>

\* ------------------------------------------------------------------ C3

\* C3 as stated: when exactly one callback returns an error and all have
\* finished before the deadline expired, the session logs the completion
\* event, no timeout warning and exactly one error event, with that error.
C3_OneErrorBeforeExpiryCompletes ==
  (pc[1] = "done" /\ AllReturnedBeforeExpiry(1) /\ Cardinality(Failed(1)) = 1)
    => /\ CountInfo(1) = 1
       /\ CountWarn(1) = 0
       /\ CountError(1) = 1
       /\ \A t \in Failed(1) : ErrorEventsOf(1, tasks[1][t].fn) = 1

\* C3 amended: when exactly one callback returns an error and the deadline
\* has not expired when the select ends the wait, the session logs the
\* completion event, no timeout warning and exactly one error event, which
\* carries that callback's error.
C3_OneErrorCompletesUnlessExpired ==
  (pc[1] = "done" /\ Cardinality(Failed(1)) = 1 /\ endCtx[1] # "deadline")
    => \A t \in Failed(1) :
         log = << Completed(1), ErrorEvent(1, tasks[1][t].fn) >>

C3_Witness ==
  /\ pc[1] = "done"
  /\ Len(tasks[1]) = MaxOps
  /\ Cardinality(Failed(1)) = 1
  /\ AllReturned(1)
  /\ endCtx[1] = "none"
  /\ CountError(1) = 1

\* ------------------------------------------------------------------ C4

\* C4: a callback that returns its error only after the select has ended the
\* wait is discarded: no error event is logged for it and the process does
\* not panic.
C4_LateErrorDiscarded ==
  /\ ~panicked
  /\ \A t \in DOMAIN tasks[1] :
       (tasks[1][t].late /\ tasks[1][t].res = "err")
         => ErrorEventsOf(1, tasks[1][t].fn) = 0

\* ------------------------------------------------------------------ C5

\* C5: every callback of the snapshot is launched exactly once, whatever the
\* others do, and is never invoked more than once: after the loop there is
\* exactly one task per entry of the snapshot, and a callback has been
\* invoked once if its task has started and not at all otherwise.
C5_EachInvokedOnce ==
  /\ Launched(1) =>
       /\ Len(tasks[1]) = Len(callbacks[1])
       /\ \A k \in DOMAIN callbacks[1] :
            Cardinality({t \in DOMAIN tasks[1] :
                           tasks[1][t].fn = callbacks[1][k]}) = 1
  /\ \A o \in Ops :
       invoked[1][o] =
         Cardinality({t \in DOMAIN tasks[1] :
                        tasks[1][t].fn = o /\ tasks[1][t].st # "spawned"})
  /\ \A o \in Ops : invoked[1][o] <= 1

C5_Witness ==
  /\ Launched(1)
  /\ Len(callbacks[1]) = MaxOps
  /\ \E t \in DOMAIN tasks[1] : tasks[1][t].res = "err"
  /\ \E t \in DOMAIN tasks[1] : tasks[1][t].st = "running"
  /\ \A o \in Ops : invoked[1][o] = 1

\* ------------------------------------------------------------------ C6

\* C6: concurrent Register calls neither lose nor duplicate a callback: the
\* registry holds exactly the callbacks of the calls that have returned, once
\* each, and the snapshot holds exactly those registered before it was taken.
C6_NoLostOrDuplicateRegistration ==
  /\ Len(m_callbacks) = Cardinality(Range(m_callbacks))
  /\ Range(m_callbacks) = {c \in Callers : rpc[c] = "returned"}
  /\ pc[1] \notin {"idle", "lock", "copy"} =>
       /\ Len(callbacks[1]) = Cardinality(Range(callbacks[1]))
       /\ Range(callbacks[1]) =
            {c \in Callers : rpc[c] = "returned"} \ regAfterCopy[1]

C6_Witness ==
  /\ \A c \in Callers : rpc[c] = "returned"
  /\ Len(m_callbacks) = MaxOps
  /\ pc[1] = "done"
  /\ Len(callbacks[1]) = MaxOps

\* ------------------------------------------------------------------ C7

\* C7: a callback registered after the session copied the registry is not in
\* the snapshot, is never launched or invoked by the session, and has no
\* error event in its log.
C7_SnapshotFixed ==
  \A o \in regAfterCopy[1] :
    /\ o \notin Range(callbacks[1])
    /\ \A t \in DOMAIN tasks[1] : tasks[1][t].fn # o
    /\ invoked[1][o] = 0
    /\ ErrorEventsOf(1, o) = 0

C7_Witness ==
  /\ regAfterCopy[1] # {}
  /\ pc[1] = "done"
  /\ Len(tasks[1]) >= 1
  /\ \E t \in DOMAIN tasks[1] : tasks[1][t].res = "err"

\* ------------------------------------------------------------------ C8

\* Position of a callback in the snapshot of session s (0: not in it).
PosInSnapshot(s, o) ==
  IF o \in Range(callbacks[s])
  THEN CHOOSE k \in DOMAIN callbacks[s] : callbacks[s][k] = o
  ELSE 0

C9_TimeoutLogsExactlyEarlyErrors ==
  ((pc[1] = "done" \/ panicked) /\ CountWarn(1) = 1)
    => \A t \in DOMAIN tasks[1] :
         /\ (tasks[1][t].res = "err" /\ ~tasks[1][t].late)
              => ErrorEventsOf(1, tasks[1][t].fn) = 1
         /\ (tasks[1][t].res = "none" \/ tasks[1][t].late)
              => ErrorEventsOf(1, tasks[1][t].fn) = 0

\* ----------------------------------------------------------------- C10

\* C10: SetupGracefulShutdown is idempotent: NewManager is run at most once,
\* every call that has returned got the one stored Manager, which is not nil,
\* and that Manager has the logger and the (defaulted) timeout of the call
\* that went first.
C10_SetupIdempotent ==
  /\ created <= 1
  /\ hookManager # NoManager =>
       hookManager = NewManager(1, firstArgs.timeout, firstArgs.logger)
  /\ \A s \in SetupCallers :
       sret[s] # Unreturned =>
         /\ sret[s] # NoManager
         /\ sret[s] = NewManager(1, firstArgs.timeout, firstArgs.logger)

\* Two callers with different arguments have both returned.
C10_Witness ==
  \E s1, s2 \in SetupCallers :
    /\ s1 # s2
    /\ spc[s1] = "idle" /\ spc[s2] = "idle"
    /\ sargs[s1].timeout # sargs[s2].timeout
    /\ sargs[s1].logger # sargs[s2].logger
    /\ scalls[s2] = MaxSetupCalls
    /\ sret[s1] = sret[s2]
    /\ sret[s1] = hookManager
    /\ hookManager.id = 1

\* ----------------------------------------------------------------- C11

\* C11: the package-level Register, RegisterWithName and Wait call the
\* Manager's method only if SetupGracefulShutdown has been called, and always
\* if a call of it had returned when they were called (a call that overlaps
\* the first Setup call may go either way).  Otherwise they return having
\* changed nothing: the callback is in no registry, not even after a later
\* Setup has created the Manager, and Wait has not asked for signals.
C11_PkgDelegatesIffSetup ==
  /\ \A c \in Callers :
       /\ rpc[c] \in {"call", "read", "write", "returned"}
            => sawSetup[c].begun
       /\ rpc[c] = "skipped"
            => /\ ~sawSetup[c].returned
               /\ c \notin Range(m_callbacks)
               /\ rtmp[c] = <<>>
               /\ mu # <<"caller", c>>
  /\ Range(m_callbacks) \subseteq {c \in Callers : rpc[c] = "returned"}
  /\ m_callbacks # <<>> => hookManager # NoManager
  /\ wpc = "notify" => sawSetup[0].begun
  /\ wpc = "skipped" => ~sawSetup[0].returned /\ quit = <<>>

\* A callback was passed to the package-level function before Setup, Setup
\* has then created the Manager, whose registry does not hold the callback,
\* and Wait, called after Setup had returned, has called the Manager's Wait.
C11_Witness ==
  /\ \E c \in Callers : rpc[c] = "skipped" /\ ~sawSetup[c].begun
  /\ hookManager # NoManager
  /\ m_callbacks = <<>>
  /\ wpc = "notify"
  /\ sawSetup[0].returned

\* ----------------------------------------------------------------- C12

\* C12: the Manager's deadline is the timeout NewManager was given when that
\* is positive and 30 seconds otherwise; the context of every session is made
\* with that deadline, and once it has expired the session's wait for its
\* tasks ends: the select can proceed, whatever the tasks are doing.
C12_DeadlineDefaultedAndBounding ==
  /\ m_timeout = IF supplied > 0 THEN supplied ELSE 30
  /\ m_timeout > 0
  /\ \A s \in Sessions :
       /\ pc[s] # "idle" => ctxTimeout[s] = m_timeout
       /\ (pc[s] = "select" /\ ctxErr[s] = "deadline")
            => ENABLED ShutdownSelect(s)

\* NewManager was given 0; the session ran with a deadline of 30 seconds and
\* was ended by it while a task was still running.
C12_Witness ==
  /\ supplied = 0
  /\ ctxTimeout[1] = 30
  /\ pc[1] = "done"
  /\ endCtx[1] = "deadline"
  /\ \E t \in DOMAIN tasks[1] : tasks[1][t].st = "running"

\* ----------------------------------------------------------------- C13

ReceivedSignal(g) == Event(0, "info", "received shutdown signal", g)

\* C13: until Wait has received a signal it starts nothing: no session has
\* begun and no callback is launched or invoked.  The signal it received is
\* one of the three, it is logged first and once, then one session runs,
\* with the Manager's deadline, and Wait has returned only if that session
\* has returned.
C13_WaitShutsDownOnSignal ==
  /\ wpc \in {"notify", "blocked", "log", "call"} =>
       /\ pc[1] = "idle"
       /\ tasks[1] = <<>>
       /\ \A o \in Ops : invoked[1][o] = 0
  /\ wpc \in {"notify", "blocked", "log"} => log = <<>>
  /\ wpc \in {"log", "call", "running", "returned"} => sig \in Signals
  /\ wpc \in {"call", "running", "returned"} =>
       /\ log # <<>>
       /\ log[1] = ReceivedSignal(sig)
       /\ \A k \in DOMAIN log : log[k][1] = 0 => k = 1
  /\ pc[1] # "idle" =>
       /\ wpc \in {"running", "returned"}
       /\ ctxTimeout[1] = m_timeout
  /\ pc[2] = "idle"
  /\ wpc = "returned" => pc[1] = "done"

\* Wait has returned after SIGTERM and a session that ran a callback; a
\* second signal that arrived meanwhile has started nothing.
C13_Witness ==
  /\ wpc = "returned"
  /\ sig = 15
  /\ quit # <<>>
  /\ pc[1] = "done"
  /\ Len(tasks[1]) = FewOps
  /\ log[1] = ReceivedSignal(15)
  /\ Len(log) >= 2

\* ----------------------------------------------------------------- C14

\* Number of times a value occurs in a sequence.
Occurrences(q, x) == Cardinality({k \in DOMAIN q : q[k] = x})

\* C14: a RegisterWithName call that has returned has added its operation to
\* the registry once, and one that has not has added nothing.  In a session,
\* as long as the wrapper has not logged the component's event the operation
\* has not been invoked; afterwards the event is in the log once and the
\* operation has been invoked once, with the context of the session.  What
\* the wrapper returns is what the operation returned, and an error it
\* returned and sent is in the error channel or has its error event.
C14_NamedLogsThenDelegates ==
  /\ \A c \in Callers :
       regNamed[c] =>
         Occurrences(m_callbacks, c) = IF rpc[c] = "returned" THEN 1 ELSE 0
  /\ \A t \in DOMAIN tasks[1] :
       tasks[1][t].named =>
         /\ tasks[1][t].st \in {"spawned", "wrapper"} =>
              /\ Count(1, ComponentEvent(1, tasks[1][t].fn)) = 0
              /\ invoked[1][tasks[1][t].fn] = 0
              /\ tasks[1][t].fnctx = 0
         /\ tasks[1][t].st \notin {"spawned", "wrapper"} =>
              /\ Count(1, ComponentEvent(1, tasks[1][t].fn)) = 1
              /\ invoked[1][tasks[1][t].fn] = 1
              /\ tasks[1][t].fnctx = 1
         /\ tasks[1][t].res = tasks[1][t].fnres
         /\ (tasks[1][t].fnres = "err" /\ tasks[1][t].st \in {"sent", "exited"})
              => Occurrences(errChan[1], tasks[1][t].fn)
                   + ErrorEventsOf(1, tasks[1][t].fn) = 1

\* The session of a component whose operation failed: its event, then the
\* completion event, then the error event of the operation.
C14_Witness ==
  /\ pc[1] = "done"
  /\ \E t \in DOMAIN tasks[1] :
       /\ tasks[1][t].named
       /\ tasks[1][t].fnres = "err"
       /\ log = << ComponentEvent(1, tasks[1][t].fn), Completed(1),
                   ErrorEvent(1, tasks[1][t].fn) >>

\* ----------------------------------------------------------------- C15

\* C15: the registry holds the callbacks in the order in which their
\* Register calls returned (each call put its callback after those already
\* there and moved none of them), and a snapshot holds, in that same order,
\* those registered before it was taken.
C15_RegisterAppends ==
  /\ m_callbacks = regOrder
  /\ \A s \in Sessions :
       pc[s] \notin {"idle", "lock", "copy"} =>
         /\ Len(callbacks[s]) <= Len(regOrder)
         /\ callbacks[s] = SubSeq(regOrder, 1, Len(callbacks[s]))

\* Caller 2 registered before caller 1, and the session copied both.
C15_Witness ==
  /\ regOrder = <<2, 1>>
  /\ m_callbacks = <<2, 1>>
  /\ callbacks[1] = <<2, 1>>
  /\ Launched(1)

\* ----------------------------------------------------------------- C16

\* Every task of the session has reported completion (wg.Done()).
AllExited(s) ==
  Launched(s) /\ \A t \in DOMAIN tasks[s] : tasks[s][t].st = "exited"

\* The outcome events of a session: none before the select has ended the
\* wait and one after it; the completion event only when every task has
\* reported completion, the timeout warning only when the deadline had
\* expired.
OneOutcome(s) ==
  /\ CountInfo(s) + CountWarn(s) = IF WaitEnded(s) THEN 1 ELSE 0
  /\ CountInfo(s) = 1 => AllExited(s)
  /\ CountWarn(s) = 1 => endCtx[s] = "deadline"

\* C16 as stated: one outcome event as above, and when every task had
\* completed before the deadline expired, the outcome is the completion event.
C16_CompletionIfDoneBeforeExpiry ==
  \A s \in Sessions :
    /\ OneOutcome(s)
    /\ (WaitEnded(s) /\ doneBeforeExpiry[s]) => CountInfo(s) = 1

\* C16 amended: one outcome event as above, and when the deadline has not
\* expired at the moment the select ends the wait, the outcome is the
\* completion event.
C16_CompletionUnlessExpired ==
  \A s \in Sessions :
    /\ OneOutcome(s)
    /\ (WaitEnded(s) /\ endCtx[s] # "deadline") => CountInfo(s) = 1

\* Every task had completed, then the deadline expired, then the select ran
\* and took the completion case.
C16_Witness ==
  /\ pc[1] = "done"
  /\ Len(tasks[1]) = MaxOps
  /\ doneBeforeExpiry[1]
  /\ endCtx[1] = "deadline"
  /\ CountInfo(1) = 1
  /\ CountWarn(1) = 0

\* ----------------------------------------------------------------- C17

\* C17: every task of a session is given the context of that session; while
\* Shutdown has not returned that context is live or expired, never
\* cancelled otherwise, whatever the tasks have returned; and once the
\* deadline has expired, the context every running task holds is done.
C17_DeadlineOnlyCancels ==
  \A s \in Sessions :
    /\ \A t \in DOMAIN tasks[s] :
         /\ tasks[s][t].ctx = s
         /\ tasks[s][t].fnctx \in {0, s}
         /\ tasks[s][t].st \in {"running", "returned", "sent", "exited"}
              => tasks[s][t].fnctx = s
    /\ pc[s] \notin {"idle", "done"} => ctxErr[s] \in {"none", "deadline"}
    /\ ctxErr[s] = "canceled" => pc[s] = "done"
    /\ ctxErr[s] = "deadline" =>
         \A t \in DOMAIN tasks[s] :
           tasks[s][t].st = "running" => CtxDone(ctxErr[tasks[s][t].fnctx])

\* One callback has failed and its goroutine has ended; the other is still
\* running, during the wait, with a live context.
C17_Witness ==
  /\ pc[1] = "select"
  /\ ctxErr[1] = "none"
  /\ \E ta, tb \in DOMAIN tasks[1] :
       /\ tasks[1][ta].res = "err"
       /\ tasks[1][ta].st = "exited"
       /\ tasks[1][tb].st = "running"
       /\ ~CtxDone(ctxErr[tasks[1][tb].fnctx])

\* ----------------------------------------------------------------- C18

\* The tasks of session s that run callback o and satisfy a condition on
\* their state.
TasksOf(s, o, states) ==
  {t \in DOMAIN tasks[s] : tasks[s][t].fn = o /\ tasks[s][t].st \in states}

\* C18: a call of Shutdown can begin whatever the other session is doing,
\* and each session is on its own.  Its snapshot is the registry as it was
\* when it copied it; it has launched one task per entry of its snapshot,
\* with its own context, and invoked each callback at most once; its context
\* is cancelled only by its own return; its done channel is closed only when
\* its own tasks have all ended; its one outcome event follows its own done
\* channel and deadline; and the errors in its channel and in its error
\* events are exactly those its own tasks have sent.
C18_SessionsIndependent ==
  \A s \in Sessions :
    /\ (pc[s] = "idle" /\ ~panicked) => ENABLED ShutdownStart(s)
    /\ pc[s] \notin {"idle", "lock", "copy"} =>
         Range(callbacks[s]) =
           {c \in Callers : rpc[c] = "returned"} \ regAfterCopy[s]
    /\ Launched(s) =>
         /\ Len(tasks[s]) = Len(callbacks[s])
         /\ \A k \in DOMAIN callbacks[s] :
              Cardinality(TasksOf(s, callbacks[s][k],
                {"spawned", "running", "returned", "sent", "exited"})) = 1
    /\ \A t \in DOMAIN tasks[s] : tasks[s][t].ctx = s
    /\ \A o \in Ops :
         /\ invoked[s][o] =
              Cardinality(TasksOf(s, o, {"running", "returned", "sent", "exited"}))
         /\ invoked[s][o] <= 1
         /\ Occurrences(errChan[s], o) + ErrorEventsOf(s, o) =
              Cardinality({t \in TasksOf(s, o, {"sent", "exited"}) :
                             tasks[s][t].res = "err"})
    /\ ctxErr[s] = "canceled" => pc[s] = "done"
    /\ pc[s] = "idle" => ctxErr[s] = "unset"
    /\ done[s] = "closed" => AllExited(s)
    /\ OneOutcome(s)

\* Both sessions are waiting for their task of the one callback, invoked
\* once by each: that of the first has failed and ended, its error is in the
\* first session's channel and its done channel is closed; that of the
\* second is still running.
C18_Witness ==
  /\ pc[1] = "select" /\ pc[2] = "select"
  /\ callbacks[1] = <<1>> /\ callbacks[2] = <<1>>
  /\ invoked[1][1] = 1 /\ invoked[2][1] = 1
  /\ tasks[1][1].st = "exited" /\ tasks[1][1].res = "err"
  /\ tasks[2][1].st = "running"
  /\ errChan[1] = <<1>> /\ errChan[2] = <<>>
  /\ done[1] = "closed" /\ done[2] = "open"

\* ----------------------------------------------------------------- C19

\* The goroutine that holds the mutex has a step to take: a holder never
\* waits for anything while it holds the mutex.
HolderCanStep ==
  \/ \E d \in Callers :
       mu = <<"caller", d>> /\ ENABLED (RegisterRead(d) \/ RegisterWrite(d))
  \/ \E s \in Sessions :
       mu = <<"shutdown", s>>
         /\ ENABLED (ShutdownCopy(s) \/ ShutdownUnlock(s))

\* Shutdown holds the mutex only between its Lock and its Unlock, around the
\* copy, when the session has launched nothing yet.
LockOnlyWhileCopying ==
  \A s \in Sessions :
    mu = <<"shutdown", s>> =>
      /\ pc[s] \in {"copy", "unlock"}
      /\ tasks[s] = <<>>
      /\ done[s] = "unset"

\* C19: Shutdown holds the mutex only while it copies the registry, and a
\* Register call that has begun and not returned always completes: it has a
\* step to take, or it waits for the mutex and the holder has one.
C19_RegisterAlwaysCompletes ==
  /\ LockOnlyWhileCopying
  /\ \A c \in Callers :
       rpc[c] \in {"call", "read", "write"} =>
         \/ ENABLED (RegisterLock(c) \/ RegisterRead(c) \/ RegisterWrite(c))
         \/ HolderCanStep

\* ----------------------------------------------------------------- C20

\* C20: once made, the error channel of a session has the capacity of the
\* number of callbacks in its snapshot; it never holds more errors than that,
\* nor more than the number of tasks that have sent one, each at most once;
\* and a task that has an error to report finds room in the channel, so its
\* send never waits for a receiver and nothing stands between its return and
\* its wg.Done().
C20_ErrChanNeverFull ==
  \A s \in Sessions :
    /\ pc[s] \in {"loop", "select", "close", "drain", "done"} =>
         errCap[s] = Len(callbacks[s])
    /\ Len(errChan[s]) <= errCap[s]
    /\ Len(errChan[s]) <=
         Cardinality({t \in DOMAIN tasks[s] :
                        tasks[s][t].st \in {"sent", "exited"}
                          /\ tasks[s][t].res = "err"})
    /\ \A o \in Ops : Occurrences(errChan[s], o) <= 1
    /\ \A t \in DOMAIN tasks[s] :
         (tasks[s][t].st = "returned" /\ ShouldSend(tasks[s][t].res))
           => Len(errChan[s]) < errCap[s]

\* Every callback of a full registry has failed: the channel is filled to its
\* capacity, every task has ended and Shutdown has not yet received anything.
C20_Witness ==
  /\ pc[1] = "select"
  /\ Len(callbacks[1]) = MaxOps
  /\ Len(errChan[1]) = MaxOps
  /\ errCap[1] = MaxOps
  /\ AllExited(1)
  /\ wg[1] = 0

\* ----------------------------------------------------------------- C21

\* The Checks of a sequence that carry a name.
ChecksNamed(q, c) == {k \in DOMAIN q : q[k].name = c}

\* C21: the snapshot of Check holds the checkers registered when it was
\* taken.  When Check has returned, every checker of its snapshot has returned
\* and its goroutine has ended; the result holds one Check per checker of
\* the snapshot, the one that checker returned; and its status is UP if
\* every one of them is UP (or there is none) and DOWN otherwise.  The
\* context plays no part: as long as a checker has not returned Check cannot
\* return, expired deadline or not, and with nothing to receive it has no
\* step to take.  No send of a Check blocks or finds the channel closed.
C21_CheckWaitsForAll ==
  /\ c_pc \notin {"rlock", "copy"} =>
       /\ Len(checkers) <= Len(h_checkers)
       /\ checkers = SubSeq(h_checkers, 1, Len(checkers))
  /\ c_pc = "returned" =>
       /\ Len(c_tasks) = Len(checkers)
       /\ \A t \in DOMAIN c_tasks : c_tasks[t].st = "exited"
       /\ Len(c_ret.checks) = Len(checkers)
       /\ \A k \in DOMAIN checkers :
            /\ Cardinality(ChecksNamed(c_ret.checks, checkers[k])) = 1
            /\ \A n \in ChecksNamed(c_ret.checks, checkers[k]) :
                 \E t \in DOMAIN c_tasks :
                   c_tasks[t].c = checkers[k] /\ c_tasks[t].res = c_ret.checks[n]
       /\ c_ret.status \in {"UP", "DOWN"}
       /\ c_ret.status = "UP" <=>
            \A n \in DOMAIN c_ret.checks : c_ret.checks[n].status = "UP"
  /\ (c_pc = "range" /\ \E t \in DOMAIN c_tasks : c_tasks[t].st = "running")
       => ~ENABLED CheckReturn
  /\ (c_pc = "range" /\ checkResults = <<>> /\ ~c_closed) => ~ENABLED CheckStep
  /\ ~panicked
  /\ \A t \in DOMAIN c_tasks :
       c_tasks[t].st = "returned" => ~c_closed /\ Len(checkResults) < c_cap

\* Check has returned after its deadline had expired, with the Checks of both
\* checkers, one UP and one UNKNOWN, and the status DOWN.
C21_Witness ==
  /\ c_pc = "returned"
  /\ c_ctx = "deadline"
  /\ Len(checkers) = MaxCheckers
  /\ Len(c_ret.checks) = MaxCheckers
  /\ c_ret.status = "DOWN"
  /\ \E n \in DOMAIN c_ret.checks : c_ret.checks[n].status = "UP"
  /\ \E n \in DOMAIN c_ret.checks : c_ret.checks[n].status = "UNKNOWN"

====
